---- MODULE Spec2Model ----
(***************************************************************************)
(* ApiToaster: the log store of the request-capture middleware.            *)
(*                                                                         *)
(* The model follows FileReader (save, saveJson, read and their helpers),  *)
(* Toaster.init / initPath and the default middleware.  A storage          *)
(* directory holds index.json, config.json and the segment files           *)
(* logs_<n>.json.  File contents are modelled by what JSON.parse returns   *)
(* for them: unparseable text, null, a primitive, or an object with or     *)
(* without the expected top-level field.                                   *)
(*                                                                         *)
(* Segment names are modelled by their numeric suffix: n stands for        *)
(* logs_<n>.json and NoNum for a name without any digit (logs.json).       *)
(***************************************************************************)
EXTENDS Integers, Sequences, FiniteSets, TLC

(***************************************************************************)
(* Bounds of the model.                                                    *)
(***************************************************************************)
\* Number of captures (and so of entry ids) the model starts.
MaxIds == 3
\* Number of times the environment replaces a file's content by invalid JSON.
MaxCorrupt == 1
\* Number of FileReader.read calls.
MaxReads == 1
\* Number of persist steps in which a write fails.
MaxFail == 1

\* Length of State.config.obfuscate.
MaxList == 2
\* Number of times obfuscate() is applied to one entry.
MaxRedact == 2

\* FileReader.checkFileSize: the rotation threshold in bytes.
Threshold == 5000

Ids == 1..MaxIds
\* Requests in flight: each middleware call makes a new Toaster with a new
\* FileReader, which nothing refers to once its save() has settled.
Insts == {1, 2}
\* A FileReader the caller keeps, for saveJson() and read().
Direct == 0

\* Byte length of JSON.stringify({[uuid]: encoded}) for the requests of the model:
\* a small request and one whose body alone is beyond the threshold.
EntrySizes == {2488, 6000}

\* The same for small requests, several of which fit in one segment.
SmallSizes == {1000}

\* A segment name without a numeric suffix (logs.json).
NoNum == -1
\* Explicit file names given to read().
ReadNames == {NoNum, 2}
\* No explicit file name (read() and fetchCurrentLogFile() without argument).
NoName == -2
\* Highest segment number the model can reach: every capture rotates once at most.
MaxSeg == 2 + MaxIds
SegNames == NoNum..MaxSeg

\* process.cwd()/Toaster, the path of defaultConfig(), and a user-given one.
DefaultPath == "cwd/Toaster"
Paths == {DefaultPath, "cwd/logsB"}

(***************************************************************************)
(* Values: parsed JSON and file contents.                                  *)
(***************************************************************************)
\* ILogsProto / ILogs as JSON.parse may return it. kind: "obj" | "prim" | "null".
LogsVal(kind, hasLogs, logs) == [kind |-> kind, hasLogs |-> hasLogs, logs |-> logs]
\* { logs: {} }
EmptyLogs == LogsVal("obj", TRUE, <<>>)

\* IIndex as JSON.parse may return it; indexes is a set of <<id, locator>>.
IndexVal(kind, hasIndexes, indexes) ==
  [kind |-> kind, hasIndexes |-> hasIndexes, indexes |-> indexes]
\* { indexes: {} }
EmptyIndex == IndexVal("obj", TRUE, {})

\* IConfigLog as JSON.parse may return it; disableProto: "true" | "false" | "unset".
ConfigVal(kind, disableProto) == [kind |-> kind, disableProto |-> disableProto]
\* { disableProto: false }
DefaultConfigLog == ConfigVal("obj", "false")

\* A file: absent, or text. text: "json" (parseable) | "garbage" | "absent";
\* val is what JSON.parse returns; pretty tells JSON.stringify(v, null, 2)
\* from JSON.stringify(v).
File(text, val, pretty) == [text |-> text, val |-> val, pretty |-> pretty]
NoSegFile == File("absent", EmptyLogs, FALSE)
NoIndexFile == File("absent", EmptyIndex, FALSE)
NoConfigFile == File("absent", DefaultConfigLog, FALSE)

\* The invalid contents the environment may leave in a file:
\* unparseable text, `null`, `5` and `{}`.
BadSeg ==
  { File("garbage", EmptyLogs, FALSE),
    File("json", LogsVal("null", FALSE, <<>>), FALSE),
    File("json", LogsVal("prim", FALSE, <<>>), FALSE),
    File("json", LogsVal("obj", FALSE, <<>>), FALSE) }
BadIndex ==
  { File("garbage", EmptyIndex, FALSE),
    File("json", IndexVal("null", FALSE, {}), FALSE),
    File("json", IndexVal("prim", FALSE, {}), FALSE),
    File("json", IndexVal("obj", FALSE, {}), FALSE) }
BadConfig ==
  { File("garbage", DefaultConfigLog, FALSE),
    File("json", ConfigVal("null", "unset"), FALSE),
    File("json", ConfigVal("prim", "unset"), FALSE) }

\* A storage directory.
NoDir ==
  [ exists |-> FALSE,
    index  |-> NoIndexFile,
    config |-> NoConfigFile,
    segs   |-> [n \in SegNames |-> NoSegFile] ]

\* The ids of the entries of a parsed segment, of a parsed index.
LogIds(v) == IF v.kind = "obj" /\ v.hasLogs THEN {v.logs[k].id : k \in 1..Len(v.logs)} ELSE {}
IndexIds(v) == IF v.kind = "obj" /\ v.hasIndexes THEN {p[1] : p \in v.indexes} ELSE {}
\* The same for a file on disk (no entry in an absent or unparseable file).
SegFileIds(f) == IF f.text = "json" THEN LogIds(f.val) ELSE {}
IndexFileIds(f) == IF f.text = "json" THEN IndexIds(f.val) ELSE {}

(***************************************************************************)
(* The file system.                                                        *)
(***************************************************************************)
\* The files a FileReader names: index.json, config.json and logs_<n>.json.
IndexTarget == [t |-> "index.json", n |-> 0]
ConfigTarget == [t |-> "config.json", n |-> 0]
SegTarget(n) == [t |-> "logs", n |-> n]

FileAt(d, target) ==
  CASE target.t = "index.json" -> d.index
    [] target.t = "config.json" -> d.config
    [] OTHER -> d.segs[target.n]

PutFile(d, target, f) ==
  CASE target.t = "index.json" -> [d EXCEPT !.index = f]
    [] target.t = "config.json" -> [d EXCEPT !.config = f]
    [] OTHER -> [d EXCEPT !.segs[target.n] = f]

\* JSON.stringify(v): the body validateFile writes; JSON.stringify(v, null, 2):
\* the body saveFiles writes.
Compact(v) == File("json", v, FALSE)
Pretty(v) == File("json", v, TRUE)

\* Bytes JSON.stringify(.., null, 2) adds to one entry of the logs map over its
\* compact length: indentation, the space after the colon, the line break; a text
\* entry is an object of five fields (defaultConfig: method, body, queryParams,
\* headers, occured), each on a line of its own.
PrettyPad(enc) == IF enc = "bin" THEN 5 ELSE 50

RECURSIVE SumPretty(_)
SumPretty(logs) ==
  IF logs = <<>> THEN 0
  ELSE Head(logs).size + PrettyPad(Head(logs).enc) + SumPretty(Tail(logs))

RECURSIVE SumCompact(_)
SumCompact(logs) ==
  IF logs = <<>> THEN 0 ELSE (Head(logs).size - 1) + SumCompact(Tail(logs))

\* fs.statSync(file).size of a segment file.
FileSize(f) ==
  CASE f.text = "garbage" -> 8
    [] f.val.kind = "null" -> 4
    [] f.val.kind = "prim" -> 1
    [] ~f.val.hasLogs -> 2
    [] f.val.logs = <<>> -> IF f.pretty THEN 16 ELSE 11
    [] OTHER -> IF f.pretty THEN 18 + SumPretty(f.val.logs)
                ELSE 10 + SumCompact(f.val.logs)

(***************************************************************************)
(* FileReader: one instance is a record of its private fields.             *)
(***************************************************************************)
\* new FileReader()
NewFileReader ==
  [ logs        |-> EmptyLogs,
    logsJson    |-> EmptyLogs,
    index       |-> EmptyIndex,
    config      |-> DefaultConfigLog,
    currLogSize |-> 0,
    currLogFile |-> 0 ]

Max(S) == CHOOSE m \in S : \A n \in S : n <= m

\* fetchCurrentLogFile(fileName?) selecting the lowest number instead of the highest.
fetchCurrentLogFile_Min(r, d, fileName) ==
  IF fileName # NoName THEN [raised |-> FALSE, fr |-> [r EXCEPT !.currLogFile = fileName]]
  ELSE IF ~d.exists THEN [raised |-> TRUE, fr |-> r]
  ELSE LET logNumbers == {n \in SegNames : n >= 0 /\ d.segs[n].text # "absent"}
       IN  IF logNumbers = {} THEN [raised |-> FALSE, fr |-> r]
           ELSE [raised |-> FALSE,
                 fr |-> [r EXCEPT !.currLogFile = CHOOSE m \in logNumbers :
                                                    \A n \in logNumbers : m <= n]]

\* fetchCurrentLogFile(fileName?): [raised, fr]; readdirSync raises on a missing
\* directory.
fetchCurrentLogFile(r, d, fileName) ==
  IF fileName # NoName THEN [raised |-> FALSE, fr |-> [r EXCEPT !.currLogFile = fileName]]
  ELSE IF ~d.exists THEN [raised |-> TRUE, fr |-> r]
  ELSE LET logNumbers == {n \in SegNames : n >= 0 /\ d.segs[n].text # "absent"}
       IN  IF logNumbers = {} THEN [raised |-> FALSE, fr |-> r]
           ELSE [raised |-> FALSE, fr |-> [r EXCEPT !.currLogFile = Max(logNumbers)]]

\* initDirectories(): mkdirSync succeeds (mk) or fails, and a failure is only logged.
initDirectories(d, mk) ==
  IF d.exists THEN d ELSE [d EXCEPT !.exists = mk]

\* validateFile() writing the base body over a file that exists.
validateFile_Overwrite(d, target, baseBody) ==
  IF ~d.exists THEN [raised |-> TRUE, dir |-> d]
  ELSE [raised |-> FALSE, dir |-> PutFile(d, target, baseBody)]

\* validateFile(target, baseBody): [raised, dir]; writeFileSync raises when the
\* directory is missing and the error becomes CannotCreateFile(target).
validateFile(d, target, baseBody) ==
  IF FileAt(d, target).text # "absent" THEN [raised |-> FALSE, dir |-> d]
  ELSE IF ~d.exists THEN [raised |-> TRUE, dir |-> d]
  ELSE [raised |-> FALSE, dir |-> PutFile(d, target, baseBody)]

\* pre() validating the segment file before index.json.
pre_SegmentFirst(r, d, mk) ==
  LET d0 == initDirectories(d, mk)
      v2 == validateFile(d0, SegTarget(r.currLogFile), Compact(EmptyLogs))
      v1 == validateFile(v2.dir, IndexTarget, Compact(EmptyIndex))
      v3 == validateFile(v1.dir, ConfigTarget, Compact(DefaultConfigLog))
  IN  IF v2.raised THEN [err |-> "logs", dir |-> v2.dir]
      ELSE IF v1.raised THEN [err |-> "index.json", dir |-> v1.dir]
      ELSE IF v3.raised THEN [err |-> "config.json", dir |-> v3.dir]
      ELSE [err |-> "none", dir |-> v3.dir]

\* pre(): [err, dir], err the file CannotCreateFile names, or "none".
pre(r, d, mk) ==
  LET d0 == initDirectories(d, mk)
      v1 == validateFile(d0, IndexTarget, Compact(EmptyIndex))
      v2 == validateFile(v1.dir, SegTarget(r.currLogFile), Compact(EmptyLogs))
      v3 == validateFile(v2.dir, ConfigTarget, Compact(DefaultConfigLog))
  IN  IF v1.raised THEN [err |-> "index.json", dir |-> v1.dir]
      ELSE IF v2.raised THEN [err |-> "logs", dir |-> v2.dir]
      ELSE IF v3.raised THEN [err |-> "config.json", dir |-> v3.dir]
      ELSE [err |-> "none", dir |-> v3.dir]

\* prepareLogfile() and prepareLogJsonFile(): the value the field takes.
prepareLogfile(d, cur) ==
  LET f == d.segs[cur]
  IN  IF f.text # "json" THEN EmptyLogs
      ELSE IF f.val.kind = "obj" /\ f.val.hasLogs THEN f.val
      ELSE IF f.val.kind = "null" THEN EmptyLogs
      ELSE f.val

\* prepareIndexFile() forgetting what index.json holds.
prepareIndexFile_NotLoaded(d) == EmptyIndex

\* prepareIndexFile(): the value this.index takes.
prepareIndexFile(d) ==
  IF d.index.text # "json" THEN EmptyIndex ELSE d.index.val

\* prepareConfigFile(): the value this.config takes.
prepareConfigFile(d) ==
  IF d.config.text # "json" THEN DefaultConfigLog ELSE d.config.val

\* One entry of a segment: the uuid, how it is encoded and the byte length of
\* JSON.stringify({[uuid]: encoded}).
Entry(id, enc, size) == [id |-> id, enc |-> enc, size |-> size]

\* `this.logs.logs = { ...this.logs.logs, ...logProto }`: [raised, val]; assigning
\* a property of a primitive raises a TypeError (class bodies are strict code).
AppendLog(v, e) ==
  IF v.kind # "obj" THEN [raised |-> TRUE, val |-> v]
  ELSE [raised |-> FALSE,
        val |-> LogsVal("obj", TRUE, Append(IF v.hasLogs THEN v.logs ELSE <<>>, e))]

\* The index assignment replacing the map instead of adding a key to it.
AddIndex_Replace(v, id, loc) ==
  IF v.kind # "obj" \/ ~v.hasIndexes THEN [raised |-> TRUE, val |-> v]
  ELSE [raised |-> FALSE, val |-> IndexVal("obj", TRUE, {<<id, loc>>})]

\* `this.index.indexes[uuid] = path.resolve(State.config.path, 'index.json')`:
\* [raised, val]; a TypeError when this.index is null or has no indexes.
AddIndex(v, id, loc) ==
  IF v.kind # "obj" \/ ~v.hasIndexes THEN [raised |-> TRUE, val |-> v]
  ELSE [raised |-> FALSE,
        val |-> IndexVal("obj", TRUE, {p \in v.indexes : p[1] # id} \cup {<<id, loc>>})]

\* prepareLog(req) from the point where the awaited proto.encodeLog has settled:
\* [raised, fr].
prepareLog(r, e, path) ==
  LET r1 == [r EXCEPT !.currLogSize = e.size]
      a  == AppendLog(r1.logs, e)
      r2 == [r1 EXCEPT !.logs = a.val]
      x  == AddIndex(r2.index, e.id, path)
  IN  IF a.raised THEN [raised |-> TRUE, fr |-> r1]
      ELSE IF x.raised THEN [raised |-> TRUE, fr |-> r2]
      ELSE [raised |-> FALSE, fr |-> [r2 EXCEPT !.index = x.val]]

\* prepareJsonLog(req): [raised, fr].
prepareJsonLog(r, e, path) ==
  LET r1 == [r EXCEPT !.currLogSize = e.size]
      a  == AppendLog(r1.logsJson, e)
      r2 == [r1 EXCEPT !.logsJson = a.val]
      x  == AddIndex(r2.index, e.id, path)
  IN  IF a.raised THEN [raised |-> TRUE, fr |-> r1]
      ELSE IF x.raised THEN [raised |-> TRUE, fr |-> r2]
      ELSE [raised |-> FALSE, fr |-> [r2 EXCEPT !.index = x.val]]

\* prepareConfig(): [raised, fr]; a TypeError when this.config is null or a primitive.
prepareConfig(r, cfg) ==
  IF r.config.kind # "obj" THEN [raised |-> TRUE, fr |-> r]
  ELSE [raised |-> FALSE, fr |-> [r EXCEPT !.config.disableProto = cfg.disableProto]]

\* incrementLogFile(logName) skipping a number.
incrementLogFile_Two(r, logName) ==
  IF logName = NoNum THEN [raised |-> TRUE, fr |-> r]
  ELSE [raised |-> FALSE, fr |-> [r EXCEPT !.currLogFile = logName + 2]]

\* incrementLogFile(logName): [raised, fr]; without a number in the name the error
\* is logged and match![0] raises a TypeError.
incrementLogFile(r, logName) ==
  IF logName = NoNum THEN [raised |-> TRUE, fr |-> r]
  ELSE [raised |-> FALSE, fr |-> [r EXCEPT !.currLogFile = logName + 1]]

\* cleanLogs(): [raised, fr]; Object.entries(undefined) raises a TypeError.
cleanLogs(r) ==
  IF r.logs.kind # "obj" \/ ~r.logs.hasLogs THEN [raised |-> TRUE, fr |-> r]
  ELSE LET n == Len(r.logs.logs)
           lastLog == IF n = 0 THEN <<>> ELSE <<r.logs.logs[n]>>
       IN  [raised |-> FALSE, fr |-> [r EXCEPT !.logs.logs = lastLog]]

\* checkFileSize(logName): [err, fr, rotated]; statSync raises on a missing file.
checkFileSize(r, d, logName) ==
  LET f == d.segs[logName]
  IN  IF f.text = "absent" THEN [err |-> "ENOENT", fr |-> r, rotated |-> FALSE]
      ELSE IF FileSize(f) + r.currLogSize > Threshold
      THEN LET i == incrementLogFile(r, logName)
               c == cleanLogs(i.fr)
           IN  IF i.raised THEN [err |-> "TypeError", fr |-> i.fr, rotated |-> FALSE]
               ELSE IF c.raised THEN [err |-> "TypeError", fr |-> c.fr, rotated |-> FALSE]
               ELSE [err |-> "none", fr |-> c.fr, rotated |-> TRUE]
      ELSE [err |-> "none", fr |-> r, rotated |-> FALSE]

\* saveFiles() writing the segment and neither index.json nor config.json.
saveFiles_SegmentOnly(r, d, cfg, failAt) ==
  LET writes == IF ~d.exists THEN 0 ELSE IF failAt = 0 THEN 3 ELSE failAt - 1
      seg == IF cfg.disableProto = "true" THEN Pretty(r.logsJson) ELSE Pretty(r.logs)
  IN  [dir |-> IF writes >= 1 THEN PutFile(d, SegTarget(r.currLogFile), seg) ELSE d,
       writes |-> writes]

\* saveFiles() writing index.json before the segment.
saveFiles_IndexFirst(r, d, cfg, failAt) ==
  LET writes == IF ~d.exists THEN 0 ELSE IF failAt = 0 THEN 3 ELSE failAt - 1
      seg == IF cfg.disableProto = "true" THEN Pretty(r.logsJson) ELSE Pretty(r.logs)
      d1 == IF writes >= 1 THEN PutFile(d, IndexTarget, Pretty(r.index)) ELSE d
      d2 == IF writes >= 2 THEN PutFile(d1, SegTarget(r.currLogFile), seg) ELSE d1
      d3 == IF writes >= 3 THEN PutFile(d2, ConfigTarget, Pretty(r.config)) ELSE d2
  IN  [dir |-> d3, writes |-> writes]

\* saveFiles(): [dir, writes]; the three writes in order, the failAt-th one raising
\* (0: none does; every write raises in a missing directory); the error is logged
\* and the writes made before it stay. writes is the number of files written.
saveFiles(r, d, cfg, failAt) ==
  LET writes == IF ~d.exists THEN 0 ELSE IF failAt = 0 THEN 3 ELSE failAt - 1
      seg == IF cfg.disableProto = "true" THEN Pretty(r.logsJson) ELSE Pretty(r.logs)
      d1 == IF writes >= 1 THEN PutFile(d, SegTarget(r.currLogFile), seg) ELSE d
      d2 == IF writes >= 2 THEN PutFile(d1, IndexTarget, Pretty(r.index)) ELSE d1
      d3 == IF writes >= 3 THEN PutFile(d2, ConfigTarget, Pretty(r.config)) ELSE d2
  IN  [dir |-> d3, writes |-> writes]

(***************************************************************************)
(* Toaster and State.config.                                               *)
(***************************************************************************)
\* The configurations the middleware is called with: no config at all, or an
\* object with or without a path and with or without the disableProto flag.
NoConfigArg == [given |-> FALSE, path |-> "none", disableProto |-> "unset"]
ConfigArgs ==
  {NoConfigArg} \cup
  [given : {TRUE}, path : {"none"}, disableProto : {"true", "false", "unset"}]

\* path.resolve(process.cwd(), config.path without its leading '/').
ResolvePath(p) == IF p = "/logsB" THEN "cwd/logsB" ELSE DefaultPath

\* State.config: set tells whether it was ever assigned.
StateConfig(path, disableProto) ==
  [set |-> TRUE, path |-> path, disableProto |-> disableProto]

\* defaultConfig(): no disableProto key.
defaultConfig == StateConfig(DefaultPath, "unset")

\* Toaster.initPath(config): the value State.config takes.
initPath(config) ==
  IF config.given /\ (config.path # "none" \/ config.disableProto # "unset")
  THEN IF config.path # "none"
       THEN StateConfig(ResolvePath(config.path), config.disableProto)
       ELSE StateConfig(DefaultPath, config.disableProto)
  ELSE defaultConfig

\* A config.path that is truthy and not a string (a number, say).
NotAString == "<number>"

\* initPath(config) raises a TypeError: `config.path.startsWith` is not a function.
initPathRaises(config) == config.given /\ config.path = NotAString

\* What one call of the middleware leaves behind. next: the calls of next();
\* init: how the promise of Toaster.init settled; caught: the catch handler ran
\* and logged 'Got error'; unhandled: a rejected promise no handler is attached
\* to; thrown: an exception left the middleware; err: the error of the capture;
\* path: State.config.path as the call's initPath left it.
Call(next, init, caught, unhandled, thrown, err, path) ==
  [ next |-> next, init |-> init, caught |-> caught, unhandled |-> unhandled,
    thrown |-> thrown, err |-> err, path |-> path ]
NoCall == Call(0, "none", FALSE, FALSE, FALSE, "none", DefaultPath)

\* Toaster.init as a plain function: a raise of initPath leaves the middleware.
Toaster_init_NotAsync(configErr, saveErr, path) ==
  IF configErr # "none"
  THEN Call(0, "none", FALSE, FALSE, TRUE, configErr, path)
  ELSE Call(0, "resolved", FALSE, saveErr # "none", FALSE, saveErr, path)

\* Toaster.init(req, config): an async function, whose executor runs initPath and
\* then calls save(req) and drops the promise it returns. A raise of initPath
\* rejects the promise of init; save() is async too, so a raise of pre() rejects
\* the dropped promise, and init resolves as soon as save() has returned it.
Toaster_init(configErr, saveErr, path) ==
  IF configErr # "none"
  THEN Call(0, "rejected", FALSE, FALSE, FALSE, configErr, path)
  ELSE Call(0, "resolved", FALSE, saveErr # "none", FALSE, saveErr, path)

\* The default middleware: init(...).catch(log 'Got error'), then next().
middleware(c) ==
  IF c.thrown THEN c
  ELSE [c EXCEPT !.caught = (c.init = "rejected"), !.next = c.next + 1]

\* save() ends after its await: a raise rejects the dropped promise.
SaveSettles(c, err) ==
  IF err # "none" THEN [c EXCEPT !.unhandled = TRUE, !.err = err] ELSE c

(***************************************************************************)
(* The entry: prepareLog / prepareJsonLog up to the encoding, and           *)
(* obfuscate.  A JavaScript value is a record [t, s]; a plain object is a  *)
(* function from its own keys to values.                                    *)
(***************************************************************************)
JsString(s) == [t |-> "string", s |-> s]
JsNumber0 == [t |-> "number", s |-> "0"]
Undefined == [t |-> "undefined", s |-> ""]
\* The fixed redaction marker.
Marker == JsString("***")

\* if (v): every value is truthy but undefined, '' and 0.
Truthy_All(v) == TRUE
Truthy(v) == v \notin {Undefined, JsString(""), JsNumber0}

\* The plain objects with keys among K and values in V; {}.
Objects(K, V) == UNION {[S -> V] : S \in SUBSET K}
EmptyObject == [k \in {} |-> Undefined]

\* o[k]; o[k] = v; { ...o } followed by delete o[k].
Get(o, k) == IF k \in DOMAIN o THEN o[k] ELSE Undefined
Set(o, k, v) == [x \in DOMAIN o \cup {k} |-> IF x = k THEN v ELSE o[x]]
Without_Nothing(o, k) == o
Without(o, k) == [x \in DOMAIN o \ {k} |-> o[x]]

\* .filter((field) => field !== 'occured')
NotOccured(field) == field # "occured"

\* .forEach((e) => { if (log.body[e]) log.body[e] = '***'; }) writing a different
\* value over a marker.
RECURSIVE ObfuscateEach_Twice(_, _)
ObfuscateEach_Twice(body, fields) ==
  IF fields = <<>> THEN body
  ELSE LET e == Head(fields)
       IN  ObfuscateEach_Twice(
             IF Get(body, e) = Marker THEN Set(body, e, JsString("******"))
             ELSE IF Truthy(Get(body, e)) THEN Set(body, e, Marker) ELSE body,
             Tail(fields))

\* .forEach((e) => { if (log.body[e]) log.body[e] = '***'; })
RECURSIVE ObfuscateEach(_, _)
ObfuscateEach(body, fields) ==
  IF fields = <<>> THEN body
  ELSE LET e == Head(fields)
       IN  ObfuscateEach(IF Truthy(Get(body, e)) THEN Set(body, e, Marker) ELSE body,
                         Tail(fields))

\* obfuscate(log) under State.config.obfuscate = list.
obfuscate(entry, list) ==
  [entry EXCEPT !.body = ObfuscateEach(@, SelectSeq(list, NotOccured))]

\* The INotFormattedLogEntry prepareLog builds from req under State.config = cfg
\* at Date.now() = now; req.body is given or undefined (req.body ?? {}).
NormalizeEntry(req, cfg, now) ==
  [ method      |-> IF cfg.method THEN req.method ELSE Undefined,
    body        |-> IF cfg.body /\ req.body.given THEN req.body.val ELSE EmptyObject,
    queryParams |-> IF cfg.queryParams THEN req.query ELSE EmptyObject,
    headers     |-> IF cfg.headers THEN Without(req.headers, "content-length")
                    ELSE EmptyObject,
    ip          |-> IF cfg.ip THEN req.ip ELSE Undefined,
    occured     |-> now ]

\* JSON.stringify(o) of a plain object: a string, told from the object it encodes.
Stringify(o) == [t |-> "string", json |-> o]
\* new Date(n).toISOString()
ToISOString(n) == [t |-> "string", iso |-> n]

\* logBody: the entry with body, queryParams and headers as JSON text and the
\* time as an ISO string.
LogBody(entry) ==
  [ method      |-> entry.method,
    body        |-> Stringify(entry.body),
    queryParams |-> Stringify(entry.queryParams),
    headers     |-> Stringify(entry.headers),
    ip          |-> entry.ip,
    occured     |-> ToISOString(entry.occured) ]

\* The keys of logBody a persisted entry holds: an undefined value is left out
\* by JSON.stringify.
PersistedKeys(entry) ==
  {"body", "queryParams", "headers", "occured"}
    \cup (IF entry.method # Undefined THEN {"method"} ELSE {})
    \cup (IF entry.ip # Undefined THEN {"ip"} ELSE {})

(***************************************************************************)
(* The state.                                                              *)
(***************************************************************************)
VARIABLES
  stateConfig,  \* State.config, shared by every FileReader
  disk,         \* the storage directories, by resolved path
  fr,           \* the fields of each FileReader instance
  pc,           \* "idle", or "await": save() suspended at `await proto.encodeLog`
  pending,      \* the entry a suspended save() is encoding
  nextId,       \* the next uuid randomUUID() returns
  corrupted,    \* how many files the environment has damaged
  reads,        \* how many read() calls were made
  ioFailures,   \* how many persist steps did not write all three files
  last,         \* what the last step did (history, read by the properties only)
  request,      \* the express request as prepareLog receives it
  flags,        \* State.config: the flags of the entry and the obfuscate list
  log,          \* the entry prepareLog builds from the request, and req.body after it
  mw            \* what the latest call of the middleware for each request left behind

vars ==
  <<stateConfig, disk, fr, pc, pending, nextId, corrupted, reads, ioFailures, last,
    request, flags, log, mw>>

\* The variables of the entry normalization.
entryVars == <<request, flags, log>>

NoEntry == Entry(0, "none", 0)

\* last: op is the step, err its error ("none", "CannotCreateFile", "TypeError",
\* "ENOENT"), errFile the file CannotCreateFile names, entry the captured entry,
\* rotated whether checkFileSize rotated, writes the number of files saveFiles
\* wrote, path and file the directory and the segment the operation ended on, ret
\* what read() returned; arg and mk are set by ReadCall.
Last(op, inst, err, errFile, entry, rotated, writes, path, file, ret) ==
  [ op |-> op, inst |-> inst, err |-> err, errFile |-> errFile, entry |-> entry,
    rotated |-> rotated, writes |-> writes, path |-> path, file |-> file,
    ret |-> ret, arg |-> NoName, mk |-> FALSE ]

\* The same for read(): arg is the file name it was given, mk whether the storage
\* root was missing and could be created.
ReadCall(l, fileName, mk) == [l EXCEPT !.arg = fileName, !.mk = mk]

Step(op, inst) ==
  Last(op, inst, "none", "none", NoEntry, FALSE, 0, DefaultPath, 0, EmptyLogs)

\* The variables of the log store.
storeVars ==
  <<stateConfig, disk, fr, pc, pending, nextId, corrupted, reads, ioFailures, last,
    mw>>

\* Date.now() at the capture.
DateNow == 17

\* The fields of defaultConfig() that shape an entry.
DefaultFlags ==
  [ method |-> TRUE, body |-> TRUE, queryParams |-> TRUE, headers |-> FALSE,
    ip |-> FALSE, obfuscate |-> <<"password">> ]

\* A request without body, query, headers or ip; no entry built yet.
NoRequest ==
  [ method  |-> JsString("GET"),
    body    |-> [given |-> FALSE, val |-> EmptyObject],
    query   |-> EmptyObject,
    headers |-> EmptyObject,
    ip      |-> Undefined ]
NoLog ==
  [ made |-> FALSE, entry |-> NormalizeEntry(NoRequest, DefaultFlags, 0),
    redacted |-> 0, reqBody |-> NoRequest.body, reqHeaders |-> NoRequest.headers ]

\* req.body as the caller holds it once the entry `e` was obfuscated: with the
\* body flag set and a body given, the entry's body is the object req.body itself
\* (line 212 copies nothing), so obfuscate() writes into the caller's object;
\* without a body, `req.body ?? {}` is a fresh object and req.body stays as it was.
CallerBody(req, cfg, e) ==
  IF cfg.body /\ req.body.given THEN [given |-> TRUE, val |-> e.body] ELSE req.body

\* req.headers as the caller holds them after prepareLog: `{ ...req.headers }` is
\* a copy, and content-length is deleted from the copy.
CallerHeaders(req) == req.headers

\* No storage directory yet, no FileReader used, State.config never assigned.
StoreInit ==
  /\ stateConfig = [set |-> FALSE, path |-> DefaultPath, disableProto |-> "unset"]
  /\ disk = [p \in Paths |-> NoDir]
  /\ fr = [i \in Insts \cup {Direct} |-> NewFileReader]
  /\ pc = [i \in Insts |-> "idle"]
  /\ pending = [i \in Insts |-> NoEntry]
  /\ nextId = 1
  /\ corrupted = 0
  /\ reads = 0
  /\ ioFailures = 0
  /\ last = Step("init", 0)
  /\ mw = [i \in Insts |-> NoCall]

Init ==
  /\ StoreInit
  /\ request = NoRequest
  /\ flags = DefaultFlags
  /\ log = NoLog

\* The second half of save() and of saveJson(): prepareConfig, checkFileSize,
\* saveFiles. [err, fr, dir, rotated, writes]
Finish(r, d, cfg, failAt) ==
  LET c == prepareConfig(r, cfg)
      k == checkFileSize(c.fr, d, c.fr.currLogFile)
      s == saveFiles(k.fr, d, cfg, failAt)
  IN  IF c.raised
      THEN [err |-> "TypeError", fr |-> c.fr, dir |-> d, rotated |-> FALSE, writes |-> 0]
      ELSE IF k.err # "none"
      THEN [err |-> k.err, fr |-> k.fr, dir |-> d, rotated |-> FALSE, writes |-> 0]
      ELSE [err |-> "none", fr |-> k.fr, dir |-> s.dir, rotated |-> k.rotated,
            writes |-> s.writes]

\* The files loaded at the start of save(): prepareLogfile, prepareIndexFile,
\* prepareConfigFile.
LoadProto(r, d) ==
  [r EXCEPT !.logs = prepareLogfile(d, r.currLogFile),
            !.index = prepareIndexFile(d),
            !.config = prepareConfigFile(d)]

\* The files loaded at the start of saveJson(): prepareLogJsonFile,
\* prepareIndexFile, prepareConfigFile.
LoadJson(r, d) ==
  [r EXCEPT !.logsJson = prepareLogfile(d, r.currLogFile),
            !.index = prepareIndexFile(d),
            !.config = prepareConfigFile(d)]

(***************************************************************************)
(* The default middleware: new Toaster().init(req, config), which sets     *)
(* State.config and calls save(req) on a new FileReader without awaiting   *)
(* it.  save() runs up to `await proto.encodeLog(logBody)` in the same     *)
(* step; pre() may raise CannotCreateFile before that.                     *)
(***************************************************************************)
Middleware(i, config, size, mk) ==
  /\ pc[i] = "idle"
  /\ nextId <= MaxIds
  /\ IF initPathRaises(config)
     THEN /\ mw' = [mw EXCEPT ![i] = middleware(Toaster_init("TypeError", "none", stateConfig.path))]
          /\ last' = Last("init", i, "TypeError", "none", NoEntry, FALSE, 0,
                          stateConfig.path, 0, EmptyLogs)
          /\ UNCHANGED <<stateConfig, disk, fr, pc, pending, nextId>>
     ELSE LET cfg == initPath(config)
              r0  == NewFileReader
              p   == pre(r0, disk[cfg.path], mk)
              f   == fetchCurrentLogFile(r0, p.dir, NoName)
              e   == Entry(nextId, "bin", size)
          IN  /\ stateConfig' = cfg
              /\ disk' = [disk EXCEPT ![cfg.path] = p.dir]
              /\ IF p.err # "none"
                 THEN /\ fr' = [fr EXCEPT ![i] = r0]
                      /\ UNCHANGED <<pc, pending, nextId>>
                      /\ last' = Last("save", i, "CannotCreateFile", p.err, NoEntry,
                                      FALSE, 0, cfg.path, r0.currLogFile, EmptyLogs)
                      /\ mw' = [mw EXCEPT ![i] = middleware(
                                  Toaster_init("none", "CannotCreateFile", cfg.path))]
                 ELSE /\ fr' = [fr EXCEPT ![i] = LoadProto(f.fr, p.dir)]
                      /\ pc' = [pc EXCEPT ![i] = "await"]
                      /\ pending' = [pending EXCEPT ![i] = e]
                      /\ nextId' = nextId + 1
                      /\ last' = Step("saveBegin", i)
                      /\ mw' = [mw EXCEPT ![i] =
                                  middleware(Toaster_init("none", "none", cfg.path))]
  /\ UNCHANGED <<corrupted, reads, ioFailures>>
  /\ UNCHANGED entryVars

(***************************************************************************)
(* save() after the await: the rest of prepareLog, prepareConfig,          *)
(* checkFileSize and saveFiles, with State.config as it is by then.        *)
(***************************************************************************)
SaveResume(i, failAt) ==
  /\ pc[i] = "await"
  /\ failAt # 0 => ioFailures < MaxFail
  /\ LET cfg == stateConfig
         d   == disk[cfg.path]
         l   == prepareLog(fr[i], pending[i], cfg.path)
         t   == Finish(l.fr, d, cfg, failAt)
     IN  IF l.raised
         THEN /\ disk' = disk
              /\ ioFailures' = ioFailures
              /\ last' = Last("save", i, "TypeError", "none", pending[i], FALSE, 0,
                              cfg.path, l.fr.currLogFile, EmptyLogs)
         ELSE /\ disk' = [disk EXCEPT ![cfg.path] = t.dir]
              /\ ioFailures' = IF t.err = "none" /\ t.writes < 3 THEN ioFailures + 1
                                ELSE ioFailures
              /\ last' = Last("save", i, t.err, "none", pending[i], t.rotated, t.writes,
                              cfg.path, t.fr.currLogFile, EmptyLogs)
  /\ mw' = [mw EXCEPT ![i] = SaveSettles(@, last'.err)]
  /\ fr' = [fr EXCEPT ![i] = NewFileReader]
  /\ pc' = [pc EXCEPT ![i] = "idle"]
  /\ pending' = [pending EXCEPT ![i] = NoEntry]
  /\ UNCHANGED <<stateConfig, nextId, corrupted, reads>>
  /\ UNCHANGED entryVars

(***************************************************************************)
(* saveJson(req) on an existing FileReader: synchronous, one step.         *)
(***************************************************************************)
SaveJson(i, size, mk, failAt) ==
  /\ stateConfig.set
  /\ failAt # 0 => ioFailures < MaxFail
  /\ nextId <= MaxIds
  /\ LET cfg == stateConfig
         d   == disk[cfg.path]
         e   == Entry(nextId, "txt", size)
         p   == pre(fr[i], d, mk)
         f   == fetchCurrentLogFile(fr[i], p.dir, NoName)
         l   == prepareJsonLog(LoadJson(f.fr, p.dir), e, cfg.path)
         t   == Finish(l.fr, p.dir, cfg, failAt)
     IN  IF p.err # "none"
         THEN /\ disk' = [disk EXCEPT ![cfg.path] = p.dir]
              /\ UNCHANGED <<fr, nextId, ioFailures>>
              /\ last' = Last("saveJson", i, "CannotCreateFile", p.err, NoEntry, FALSE,
                              0, cfg.path, fr[i].currLogFile, EmptyLogs)
         ELSE /\ nextId' = nextId + 1
              /\ IF l.raised
                 THEN /\ fr' = [fr EXCEPT ![i] = l.fr]
                      /\ disk' = [disk EXCEPT ![cfg.path] = p.dir]
                      /\ ioFailures' = ioFailures
                      /\ last' = Last("saveJson", i, "TypeError", "none", e, FALSE, 0,
                                      cfg.path, l.fr.currLogFile, EmptyLogs)
                 ELSE /\ fr' = [fr EXCEPT ![i] = t.fr]
                      /\ disk' = [disk EXCEPT ![cfg.path] = t.dir]
                      /\ ioFailures' = IF t.err = "none" /\ t.writes < 3
                                        THEN ioFailures + 1 ELSE ioFailures
                      /\ last' = Last("saveJson", i, t.err, "none", e, t.rotated,
                                      t.writes, cfg.path, t.fr.currLogFile, EmptyLogs)
  /\ UNCHANGED <<stateConfig, pc, pending, corrupted, reads>>
  /\ UNCHANGED mw
  /\ UNCHANGED entryVars

(***************************************************************************)
(* read(fileName?): fetchCurrentLogFile first, then pre(), validateFile    *)
(* twice and prepareLogfile; returns this.logs.                            *)
(***************************************************************************)
Read(i, fileName, mk) ==
  /\ stateConfig.set
  /\ reads < MaxReads
  /\ LET cfg == stateConfig
         d   == disk[cfg.path]
         f   == fetchCurrentLogFile(fr[i], d, fileName)
         p   == pre(f.fr, d, mk)
         v1  == validateFile(p.dir, IndexTarget, Compact(EmptyIndex))
         v2  == validateFile(v1.dir, SegTarget(f.fr.currLogFile), Compact(EmptyLogs))
         r   == [f.fr EXCEPT !.logs = prepareLogfile(v2.dir, f.fr.currLogFile)]
     IN  IF f.raised
         THEN /\ UNCHANGED <<fr, disk>>
              /\ last' = ReadCall(Last("read", i, "ENOENT", "none", NoEntry, FALSE, 0,
                                       cfg.path, fr[i].currLogFile, EmptyLogs),
                                  fileName, mk /\ ~d.exists)
         ELSE IF p.err # "none"
         THEN /\ fr' = [fr EXCEPT ![i] = f.fr]
              /\ disk' = [disk EXCEPT ![cfg.path] = p.dir]
              /\ last' = ReadCall(Last("read", i, "CannotCreateFile", p.err, NoEntry,
                                       FALSE, 0, cfg.path, f.fr.currLogFile, EmptyLogs),
                                  fileName, mk /\ ~d.exists)
         ELSE /\ fr' = [fr EXCEPT ![i] = r]
              /\ disk' = [disk EXCEPT ![cfg.path] = v2.dir]
              /\ last' = ReadCall(Last("read", i, "none", "none", NoEntry, FALSE, 0,
                                       cfg.path, r.currLogFile, r.logs),
                                  fileName, mk /\ ~d.exists)
  /\ reads' = reads + 1
  /\ UNCHANGED <<stateConfig, pc, pending, nextId, corrupted, ioFailures>>
  /\ UNCHANGED mw
  /\ UNCHANGED entryVars

(***************************************************************************)
(* Cli.readConfig(): State.config = defaultConfig(), with the path of      *)
(* toaster.json when it names one.                                         *)
(***************************************************************************)
readConfig(path) ==
  /\ stateConfig' = StateConfig(ResolvePath(path), "unset")
  /\ stateConfig' # stateConfig
  /\ last' = Step("readConfig", 0)
  /\ UNCHANGED <<disk, fr, pc, pending, nextId, corrupted, reads, ioFailures>>
  /\ UNCHANGED mw
  /\ UNCHANGED entryVars

(***************************************************************************)
(* The environment: a file of a storage directory gets invalid content.    *)
(***************************************************************************)
Corrupt(path, target, bad) ==
  /\ corrupted < MaxCorrupt
  /\ FileAt(disk[path], target).text # "absent"
  /\ disk' = [disk EXCEPT ![path] = PutFile(disk[path], target, bad)]
  /\ corrupted' = corrupted + 1
  /\ last' = Step("corrupt", 0)
  /\ UNCHANGED <<stateConfig, fr, pc, pending, nextId, reads, ioFailures>>
  /\ UNCHANGED mw
  /\ UNCHANGED entryVars

(***************************************************************************)
(* prepareLog / prepareJsonLog up to the encoding: the entry is built from *)
(* the request and obfuscated; and obfuscate() applied to it once more.    *)
(***************************************************************************)
PrepareEntry ==
  /\ ~log.made
  /\ LET e == obfuscate(NormalizeEntry(request, flags, DateNow), flags.obfuscate)
     IN  log' = [ made |-> TRUE, entry |-> e, redacted |-> 1,
                  reqBody |-> CallerBody(request, flags, e),
                  reqHeaders |-> CallerHeaders(request) ]
  /\ UNCHANGED <<request, flags>>
  /\ UNCHANGED storeVars

ObfuscateAgain ==
  /\ log.made
  /\ log.redacted < MaxRedact
  /\ LET e == obfuscate(log.entry, flags.obfuscate)
     IN  log' = [ made |-> TRUE, entry |-> e, redacted |-> log.redacted + 1,
                  reqBody |-> CallerBody(request, flags, e),
                  reqHeaders |-> log.reqHeaders ]
  /\ UNCHANGED <<request, flags>>
  /\ UNCHANGED storeVars

\* The request bodies and obfuscate lists of the redaction checks.
BodyFields == {"password", "q", "occured"}
BodyValues == {JsString("hunter2"), JsString(""), JsNumber0, Marker}
Bodies == Objects(BodyFields, BodyValues)
ObfuscateLists == UNION {[1..n -> BodyFields] : n \in 0..MaxList}

\* The requests and flags of the normalization checks.
SmallRequests ==
  [ method  : {JsString("POST")},
    body    : {[given |-> FALSE, val |-> EmptyObject],
               [given |-> TRUE, val |-> EmptyObject],
               [given |-> TRUE,
                val |-> [f \in {"password", "q"} |-> JsString("hunter2")]]},
    query   : Objects({"q"}, {JsString("v")}),
    headers : Objects({"content-length", "host"}, {JsString("v")}),
    ip      : {Undefined, JsString("10.0.0.1")} ]
AllFlags ==
  [ method : BOOLEAN, body : BOOLEAN, queryParams : BOOLEAN, headers : BOOLEAN,
    ip : BOOLEAN, obfuscate : {<<"password">>} ]

(***************************************************************************)
(* Specifications.                                                         *)
(***************************************************************************)
\* Nothing is suspended at an await.
Quiet == \A i \in Insts : pc[i] = "idle"

\* A request arrives at the middleware, as request i.
Request(I) ==
  \E i \in I, config \in ConfigArgs, size \in EntrySizes, mk \in BOOLEAN :
    Middleware(i, config, size, mk)

\* A suspended save() goes on, its persist step failing at one of the writes F.
Resume(F) == \E i \in Insts, failAt \in F : SaveResume(i, failAt)

\* The caller's FileReader captures a request as text, while nothing is suspended.
CaptureJson(F) ==
  /\ Quiet
  /\ \E size \in EntrySizes, mk \in BOOLEAN, failAt \in F :
       SaveJson(Direct, size, mk, failAt)

\* The caller's FileReader reads a segment, while nothing is suspended.
Retrieve ==
  /\ Quiet
  /\ \E fileName \in ReadNames \cup {NoName}, mk \in BOOLEAN : Read(Direct, fileName, mk)

\* The command line loads toaster.json.
CliConfig == Quiet /\ readConfig("none")

\* index.json gets invalid content.
CorruptIndex ==
  Quiet /\ \E bad \in BadIndex : Corrupt(DefaultPath, IndexTarget, bad)

\* config.json gets invalid content.
CorruptConfig ==
  Quiet /\ \E bad \in BadConfig : Corrupt(DefaultPath, ConfigTarget, bad)

\* A segment file gets invalid content.
CorruptSegment ==
  Quiet /\ \E n \in SegNames, bad \in BadSeg : Corrupt(DefaultPath, SegTarget(n), bad)

\* The middleware under concurrent requests; a write of the persist step may fail.
Next == Request(Insts) \/ Resume(0..3)

Spec == Init /\ [][Next]_vars

\* Captures one after the other, binary through the middleware and text through
\* saveJson, on a file system that never fails.
NextSeq == Request({1}) \/ Resume({0}) \/ CaptureJson({0}) \/ CliConfig

SpecSeq == Init /\ [][NextSeq]_vars

\* Captures one after the other; a write of the persist step may fail and
\* index.json may be damaged between two captures.
NextFaults == Request({1}) \/ Resume(0..3) \/ CaptureJson(0..3) \/ CorruptIndex

SpecFaults == Init /\ [][NextFaults]_vars

\* Captures and reads one after the other on files that may be damaged between
\* two operations.
NextRead ==
  \/ Request({1})
  \/ Resume({0})
  \/ Retrieve
  \/ CliConfig
  \/ CorruptIndex
  \/ CorruptConfig
  \/ CorruptSegment

SpecRead == Init /\ [][NextRead]_vars

\* A small request arrives at the middleware, as request i.
RequestSmall(I) ==
  \E i \in I, config \in ConfigArgs, size \in SmallSizes, mk \in BOOLEAN :
    Middleware(i, config, size, mk)

\* The caller's FileReader captures a small request as text.
CaptureJsonSmall ==
  /\ Quiet
  /\ \E size \in SmallSizes, mk \in BOOLEAN : SaveJson(Direct, size, mk, 0)

\* Small captures one after the other, binary and text, under changing
\* disableProto settings, on a file system that never fails.
NextModes == RequestSmall({1}) \/ Resume({0}) \/ CaptureJsonSmall \/ CliConfig

SpecModes == Init /\ [][NextModes]_vars

\* A caller that keeps one FileReader for reads and text captures, next to the
\* middleware, on a file system that never fails.
NextCaller ==
  Request({1}) \/ Resume({0}) \/ CaptureJson({0}) \/ Retrieve \/ CliConfig

SpecCaller == Init /\ [][NextCaller]_vars

\* The configurations with a path: none, '/logsB', and one that is not a string.
PathConfigArgs ==
  {NoConfigArg} \cup
  [given : {TRUE}, path : {"/logsB", NotAString}, disableProto : {"unset"}]

\* A request arrives at the middleware, as request i, under one of these.
RequestPaths(I) ==
  \E i \in I, config \in PathConfigArgs, size \in EntrySizes, mk \in BOOLEAN :
    Middleware(i, config, size, mk)

\* The middleware under concurrent requests with different storage paths, on a
\* file system whose writes do not fail.
NextPaths == RequestPaths(Insts) \/ Resume({0})

SpecPaths == Init /\ [][NextPaths]_vars

\* The middleware alone, one request after the other, under every configuration
\* of the encoding, on a file system whose writes do not fail.
NextMiddleware == Request({1}) \/ Resume({0})

SpecMiddleware == Init /\ [][NextMiddleware]_vars

\* One entry is built and obfuscated, then obfuscated again.
NextEntry == PrepareEntry \/ ObfuscateAgain

\* Redaction: every body over BodyFields under every obfuscate list.
InitRedact ==
  /\ StoreInit
  /\ request \in {[NoRequest EXCEPT !.body = [given |-> TRUE, val |-> b]] : b \in Bodies}
  /\ flags \in {[DefaultFlags EXCEPT !.obfuscate = l] : l \in ObfuscateLists}
  /\ log = NoLog

SpecRedact == InitRedact /\ [][NextEntry]_vars

\* Normalization: every combination of the flags on a few requests.
InitNormalize ==
  /\ StoreInit
  /\ request \in SmallRequests
  /\ flags \in AllFlags
  /\ log = NoLog

SpecNormalize == InitNormalize /\ [][NextEntry]_vars

(***************************************************************************)
(* Properties.                                                             *)
(***************************************************************************)
\* The last step was a capture that returned without raising.
CaptureOk == last.op \in {"save", "saveJson"} /\ last.err = "none"
\* ... and none of the three writes of its persist step failed.
Persisted == CaptureOk /\ last.writes = 3

\* The directory and the segment file the last operation ended on.
CurDir == disk[last.path]
CurSegFile == CurDir.segs[last.file]

\* The entries of a segment file, the entry ids of all segment files of a directory.
SegEntries(f) ==
  IF f.text = "json" /\ f.val.kind = "obj" /\ f.val.hasLogs
  THEN {f.val.logs[k] : k \in 1..Len(f.val.logs)} ELSE {}
AllSegIds(d) == UNION {SegFileIds(d.segs[n]) : n \in SegNames}

\* The segment a capture starting on directory d takes as current.
CurrentOf(d) ==
  LET logNumbers == {n \in SegNames : n >= 0 /\ d.segs[n].text # "absent"}
  IN  IF logNumbers = {} THEN 0 ELSE Max(logNumbers)

\* index.json maps the captured id to its locator; config.json records the flag.
IndexHasEntry ==
  /\ CurDir.index.text = "json"
  /\ CurDir.index.val.kind = "obj"
  /\ <<last.entry.id, last.path>> \in CurDir.index.val.indexes
ConfigReflects ==
  /\ CurDir.config.text = "json"
  /\ CurDir.config.val = ConfigVal("obj", stateConfig.disableProto)

\* C1: after a capture that returns without raising, writes its three files and
\* does not rotate, the current segment file holds the new entry under its id and
\* still holds every entry it held before the capture, whatever disableProto is.
C1_CaptureKeepsSegment ==
  [][ (Persisted' /\ ~last'.rotated) =>
        LET before == disk[last'.path].segs[last'.file]
            after  == disk'[last'.path].segs[last'.file]
        IN  /\ last'.entry \in SegEntries(after)
            /\ SegEntries(before) \subseteq SegEntries(after) ]_vars

C3_IndexAppendOnly ==
  [][ /\ \A p \in Paths : IndexFileIds(disk[p].index) \subseteq IndexFileIds(disk'[p].index)
      /\ Persisted' =>
           LET old == IndexFileIds(disk[last'.path].index)
               new == IndexFileIds(disk'[last'.path].index)
           IN  /\ last'.entry.id \notin old
               /\ new = old \cup {last'.entry.id} ]_vars

\* A capture has rotated the segment and the index holds two ids at least.
C3_Witness ==
  /\ Persisted
  /\ last.rotated
  /\ Cardinality(IndexFileIds(CurDir.index)) >= 2

\* C4: after every capture the segment file it wrote is no larger than the
\* rotation threshold.  Entries that exceed the threshold on their own are left
\* out: the file holds entries that fit two to a segment by their encoded size.
C4_SegmentWithinThreshold ==
  ( /\ CaptureOk
    /\ last.writes >= 1
    /\ \A e \in SegEntries(CurSegFile) : 2 * e.size <= Threshold ) =>
    FileSize(CurSegFile) <= Threshold

\* C5: when a capture rotates, the segment number grows by exactly one and the map
\* persisted to the new segment holds the captured entry only, on the binary path
\* (save with the encoder on) and on the text path (saveJson with disableProto).
C5_RotationKeepsLastOnly ==
  [][ ( /\ Persisted'
        /\ last'.rotated
        /\ \/ last'.op = "save" /\ stateConfig'.disableProto # "true"
           \/ last'.op = "saveJson" /\ stateConfig'.disableProto = "true" ) =>
        /\ last'.file = CurrentOf(disk[last'.path]) + 1
        /\ disk'[last'.path].segs[last'.file].val.logs = <<last'.entry>> ]_vars

\* C6: once the captures started through the middleware have all completed, with
\* no failed write, the index holds the id of every one of them.
C6_NoLostUpdate ==
  (Quiet /\ ioFailures = 0) =>
    UNION {IndexFileIds(disk[p].index) : p \in Paths} = 1..(nextId - 1)

C8_OnlyCannotCreateFile ==
  last.op \in {"save", "saveJson"} => last.err \in {"none", "CannotCreateFile"}

\* C9: read() of a segment file with invalid content does not raise and returns a
\* value whose logs map exists and is empty.
C9_ReadRecovers ==
  (last.op = "read" /\ CurSegFile \in BadSeg) =>
    (last.err = "none" /\ last.ret = EmptyLogs)

\* C10: read() without a file name on a storage root that does not exist but can be
\* created creates the directory and the default files and returns an empty entry
\* set without raising.
C10_ReadBootstraps ==
  (last.op = "read" /\ last.arg = NoName /\ last.mk) =>
    /\ last.err = "none"
    /\ CurDir.exists
    /\ CurDir.index.text = "json"
    /\ CurSegFile.text = "json"
    /\ last.ret = EmptyLogs

\* The numbers of the numbered segment files present in a directory.
Numbered(d) == {n \in SegNames : n >= 0 /\ d.segs[n].text # "absent"}

\* C11: a capture that finds no storage directory and cannot create it raises
\* CannotCreateFile naming index.json, loads nothing into the FileReader and
\* leaves every file of every directory as it was.
C11_BootstrapFatal ==
  [][ ( /\ last'.op \in {"save", "saveJson"}
        /\ ~disk[last'.path].exists
        /\ ~disk'[last'.path].exists ) =>
        /\ last'.err = "CannotCreateFile"
        /\ last'.errFile = "index.json"
        /\ disk' = disk
        /\ fr'[last'.inst].logs = fr[last'.inst].logs
        /\ fr'[last'.inst].logsJson = fr[last'.inst].logsJson
        /\ fr'[last'.inst].index = fr[last'.inst].index
        /\ fr'[last'.inst].config = fr[last'.inst].config ]_vars

\* A text capture has raised CannotCreateFile for index.json on a missing root.
C11_Witness ==
  /\ last.op = "saveJson"
  /\ last.err = "CannotCreateFile"
  /\ last.errFile = "index.json"
  /\ ~CurDir.exists

\* C12: without an explicit target a capture and a read select the segment with
\* the highest number among the numbered segment files present (the bootstrap of
\* a capture has created the reader's own segment by then); when none is present
\* a read keeps the reader's name, logs_0.json for a new reader; with an explicit
\* target a read uses that name whatever files are present.
C12_SelectsMaxSuffix ==
  [][ LET d == disk[last'.path]
      IN  /\ last'.op = "saveBegin" =>
                fr'[last'.inst].currLogFile = Max(Numbered(d) \cup {0})
          /\ (last'.op = "read" /\ last'.err = "none" /\ last'.arg # NoName) =>
                last'.file = last'.arg
          /\ (last'.op = "read" /\ last'.err = "none" /\ last'.arg = NoName) =>
                last'.file = IF Numbered(d) = {} THEN fr[last'.inst].currLogFile
                             ELSE Max(Numbered(d)) ]_vars

\* A capture without a target has selected logs_2.json, the highest number, in a
\* directory that holds no logs_1.json.
C12_Witness ==
  /\ last.op = "saveBegin"
  /\ fr[last.inst].currLogFile = 2
  /\ 1 \notin Numbered(disk[stateConfig.path])

\* C13: after a capture that persisted its three files, every entry of the segment
\* file it wrote is encoded in the mode config.json records: text when
\* disableProto is true, binary otherwise (a missing flag is read as binary).
C13_EntriesMatchConfig ==
  Persisted =>
    /\ CurDir.config.text = "json"
    /\ CurDir.config.val.kind = "obj"
    /\ \A e \in SegEntries(CurSegFile) :
         e.enc = IF CurDir.config.val.disableProto = "true" THEN "txt" ELSE "bin"

\* The field names a list holds; the values JavaScript takes as false.
Listed(list) == {list[k] : k \in 1..Len(list)}
Falsy == {JsString(""), JsNumber0}

C15_RedactionIdempotent ==
  [][ /\ log'.made => log'.entry.occured = DateNow
      /\ (log.made /\ log'.redacted = log.redacted + 1) => log'.entry = log.entry ]_vars

\* An entry obfuscated twice under a list naming `occured` and a field that was
\* redacted.
C15_Witness ==
  /\ log.redacted = 2
  /\ Listed(flags.obfuscate) = {"occured", "q"}
  /\ request.body.val = [f \in {"occured", "q"} |-> JsString("hunter2")]
  /\ log.entry.body["q"] = Marker
  /\ log.entry.body["occured"] = JsString("hunter2")

\* config.json is as the capture found it, or as the bootstrap created it.
ConfigNotRewritten(d, d2) ==
  \/ d2.config = d.config
  \/ d.config.text = "absent" /\ d2.config = Compact(DefaultConfigLog)

\* C16: the steps of one capture run in the order bootstrap, segment resolution,
\* loads, append, rotation check, write of the segment, of the index, of the
\* config snapshot, each once.  Seen from the files: a capture never fails to
\* list a missing directory; the index written is the index loaded plus the new
\* id; a rotating capture writes the next segment and leaves the one it loaded;
\* and when only the first k writes succeed, they are those of the segment, then
\* of the index, then of the config snapshot.
C16_StepOrder ==
  [][ last'.op \in {"save", "saveJson"} =>
        LET d  == disk[last'.path]
            d2 == disk'[last'.path]
            id == last'.entry.id
            w  == last'.writes
        IN  /\ last'.err # "ENOENT"
            /\ w >= 1 => /\ d2.segs[last'.file].text = "json"
                         /\ d2.segs[last'.file].pretty
            /\ (w >= 1 /\ last'.rotated) =>
                  /\ last'.file >= 1
                  /\ d2.segs[last'.file - 1].text # "absent"
                  /\ d.segs[last'.file - 1].text # "absent" =>
                        d2.segs[last'.file - 1] = d.segs[last'.file - 1]
            /\ w < 2 => /\ id \notin IndexFileIds(d2.index)
                        /\ IndexFileIds(d2.index) = IndexFileIds(d.index)
            /\ w >= 2 => IndexFileIds(d2.index) = IndexFileIds(d.index) \cup {id}
            /\ w < 3 => ConfigNotRewritten(d, d2)
            /\ w = 3 => d2.config = Pretty(ConfigVal("obj", stateConfig'.disableProto)) ]_vars

\* A text capture has rotated and written the segment and the index, its write
\* of config.json failing.
C16_Witness ==
  /\ last.op = "saveJson"
  /\ last.err = "none"
  /\ last.rotated
  /\ last.writes = 2
  /\ ~CurDir.config.pretty

\* C17: a step of a capture changes one segment file at most; a rotating capture
\* leaves the segment it rotated from as it was; and no capture changes an
\* existing segment numbered below the highest existing one.
C17_ClosedSegmentsImmutable ==
  [][ last'.op \in {"saveBegin", "save", "saveJson"} =>
        LET d  == disk[stateConfig'.path]
            d2 == disk'[stateConfig'.path]
        IN  /\ Cardinality({n \in SegNames : d2.segs[n] # d.segs[n]}) <= 1
            /\ (last'.rotated /\ last'.writes >= 1) =>
                  d2.segs[last'.file - 1] = d.segs[last'.file - 1]
            /\ \A n \in Numbered(d) :
                 n < Max(Numbered(d)) => d2.segs[n] = d.segs[n] ]_vars

\* C18: across captures that run one after the other, the number of the current
\* segment (the highest on disk) never decreases and one capture leaves it as it
\* is or raises it by exactly one; a capture that persists ends on that segment.
C18_NumberingMonotonic ==
  [][ LET c  == CurrentOf(disk[stateConfig'.path])
          c2 == CurrentOf(disk'[stateConfig'.path])
      IN  /\ c2 >= c
          /\ last'.op \in {"saveBegin", "save", "saveJson"} => c2 \in {c, c + 1}
          /\ (last'.op \in {"save", "saveJson"} /\ last'.writes >= 1) =>
                last'.file = c2 ]_vars

\* A capture has rotated to logs_2.json.
C18_Witness ==
  /\ Persisted
  /\ last.rotated
  /\ last.file = 2
  /\ Numbered(CurDir) = {0, 1, 2}

\* C19: a capture that passes the bootstrap with a current segment name holding
\* no number, and whose entry alone is beyond the threshold so that the rotation
\* is triggered, does not raise and keeps the name as it was.
C19_MalformedNameSkipsRotation ==
  [][ ( /\ last'.op \in {"save", "saveJson"}
        /\ last'.err # "CannotCreateFile"
        /\ fr[last'.inst].currLogFile = NoNum
        /\ Numbered(disk[last'.path]) = {}
        /\ last'.entry.size > Threshold ) =>
        /\ last'.err = "none"
        /\ last'.file = NoNum ]_vars

\* C20: in the persisted entry, method and ip are present only when their flag is
\* set (and then are the request's); body, queryParams and headers hold the
\* request's values when their flag is set and an empty record otherwise, the body
\* with `password` redacted and the headers without `content-length`, which the
\* persisted headers never hold.
C20_NormalizationFollowsFlags ==
  log.made =>
    LET lb   == LogBody(log.entry)
        keys == PersistedKeys(log.entry)
        b    == request.body.val
        h    == request.headers
    IN  /\ "method" \in keys <=> flags.method
        /\ flags.method => lb.method = request.method
        /\ "ip" \in keys => flags.ip /\ lb.ip = request.ip
        /\ lb.body = Stringify(
             IF flags.body /\ request.body.given
             THEN [f \in DOMAIN b |->
                    IF f = "password" /\ b[f] \notin Falsy THEN Marker ELSE b[f]]
             ELSE EmptyObject)
        /\ lb.queryParams =
             Stringify(IF flags.queryParams THEN request.query ELSE EmptyObject)
        /\ lb.headers = Stringify(
             IF flags.headers
             THEN [x \in DOMAIN h \ {"content-length"} |-> h[x]]
             ELSE EmptyObject)
        /\ "content-length" \notin DOMAIN lb.headers.json

\* An entry built with the headers and ip flags set and the method flag not set,
\* from a request that carries content-length, another header and an ip.
C20_Witness ==
  /\ log.made
  /\ flags.headers
  /\ flags.ip
  /\ ~flags.method
  /\ DOMAIN request.headers = {"content-length", "host"}
  /\ DOMAIN log.entry.headers = {"host"}
  /\ request.ip # Undefined
  /\ PersistedKeys(log.entry) = {"body", "queryParams", "headers", "occured", "ip"}

\* C21: once prepareLog has built the entry, the caller's request holds the body
\* and the headers it arrived with, under every obfuscate list.
C21_RequestUnmodified ==
  log.made => log.reqBody = request.body /\ log.reqHeaders = request.headers

\* C22: a capture started by the middleware that fails is delivered to the catch
\* handler of the middleware and never left as an unhandled rejection, and the
\* promise of Toaster.init is not settled while the capture is still suspended
\* before its persist step.
C22_FailureCaughtInitWaits ==
  \A i \in Insts :
    /\ mw[i].err # "none" => mw[i].caught /\ ~mw[i].unhandled
    /\ pc[i] = "await" => mw[i].init = "none"

\* C23: a capture of the middleware that persists its three files writes them
\* under the storage path of its own call, and leaves every other storage
\* directory as it was, whatever calls overlapped it.
C23_PersistsUnderOwnPath ==
  [][ \A i \in Insts :
        (pc[i] = "await" /\ pc'[i] = "idle" /\ last'.err = "none" /\ last'.writes = 3)
          => /\ last'.path = mw[i].path
             /\ \A p \in Paths \ {mw[i].path} : disk'[p] = disk[p] ]_vars

C25_NextOnceNoThrow ==
  \A i \in Insts :
    /\ mw[i].init = "none" => mw[i] = NoCall
    /\ mw[i] # NoCall => mw[i].next = 1 /\ ~mw[i].thrown

\* One call was given a config whose path is not a string, another one could not
\* create its files, and a third capture had gone through before.
C25_Witness ==
  /\ mw[1].err = "TypeError"
  /\ mw[1].caught
  /\ mw[2].err = "CannotCreateFile"
  /\ mw[1].next = 1
  /\ mw[2].next = 1
  /\ \E p \in Paths : AllSegIds(disk[p]) # {}

\* The files of a storage directory, and the body validateFile gives a new one.
Targets == {IndexTarget, ConfigTarget} \cup {SegTarget(n) : n \in SegNames}
BaseBody(target) ==
  CASE target.t = "index.json" -> Compact(EmptyIndex)
    [] target.t = "config.json" -> Compact(DefaultConfigLog)
    [] OTHER -> Compact(EmptyLogs)

\* C26: read() leaves every file that exists, a segment with invalid content
\* included, with the content it had; a file that did not exist is still missing
\* or holds its default body; a directory that existed still exists.
C26_ReadKeepsExistingFiles ==
  [][ last'.op = "read" =>
        \A p \in Paths :
          /\ disk[p].exists => disk'[p].exists
          /\ \A t \in Targets :
               IF FileAt(disk[p], t).text # "absent"
               THEN FileAt(disk'[p], t) = FileAt(disk[p], t)
               ELSE FileAt(disk'[p], t) \in {FileAt(disk[p], t), BaseBody(t)} ]_vars

\* A read by name that created logs_2.json next to a segment with invalid content
\* and a segment holding an entry.
C26_Witness ==
  /\ last.op = "read"
  /\ last.err = "none"
  /\ last.arg = 2
  /\ CurDir.segs[2] = Compact(EmptyLogs)
  /\ \E n \in SegNames : CurDir.segs[n] \in BadSeg
  /\ \E n \in SegNames : SegFileIds(CurDir.segs[n]) # {}

====
